---- MODULE Spec2Model ----
(***************************************************************************)
(* Model of the weighted-routes script                                     *)
(* (src/google_maps_api/direction-geojson-weight.py): the polyline         *)
(* decoder decode_polyline, segment_key, and the route loop and merge pass *)
(* of create_weighted_routes_geojson.                                      *)
(*                                                                         *)
(* Representation.                                                         *)
(*  - A Python str is the sequence of its code points.                     *)
(*  - A decoded coordinate component is the float n / 100000.0 for an      *)
(*    integer n; it is represented by n (fixed point, 5 decimals).  For    *)
(*    |n| < 2^53 distinct n give distinct floats, so float equality and    *)
(*    float ordering of coordinates agree with those of the integers.      *)
(*  - A weight is represented by its integer number of 0.0001 units, so    *)
(*    the tolerance 0.001 of the merge pass is 10 units.                   *)
(*  - A Python dict is the sequence of its items in insertion order        *)
(*    (which is its iteration order).                                      *)
(***************************************************************************)
EXTENDS Integers, Sequences, FiniteSets, TLC

VARIABLES
    polyline_str,        \* decode_polyline: the argument of the current call
    dec,                 \* decode_polyline: the locals and the position of the call
    prev_call,           \* history: how the previous call of decode_polyline ended
    row,                 \* route loop: number of CSV rows consumed so far
    segment_weights,     \* dict seg_key -> accumulated weight (insertion order)
    segment_metadata,    \* dict seg_key -> [start_point, end_point]
    processed_segments,  \* merge pass: set of consumed keys
    combined_segments,   \* merge pass: list of emitted Features
    seg_idx,             \* merge pass: position of the outer loop in segment_weights
    current_segment,     \* merge pass: chain under construction
    current_weight,      \* merge pass: weight of the chain's seed
    geojson_data,        \* the FeatureCollection written to the file
    pc,                  \* position of create_weighted_routes_geojson
    route_log,           \* history: the rows consumed so far and how each ended
    key_args,            \* segment_key: the arguments of the last call
    key_result,          \* segment_key: what the last call returned
    sp,                  \* search_places: the locals and the position of the call
    sp_hist,             \* history: save_results calls, requests issued
    rq,                  \* timezone / streetview / fetch_streetview: the call
    rq_hist,             \* history: requests sent, delays slept
    api_counter          \* collect_streetview_data: its APICallCounter

vars == <<polyline_str, dec, prev_call, row, segment_weights, segment_metadata,
          processed_segments, combined_segments, seg_idx, current_segment,
          current_weight, geojson_data, pc, route_log, key_args, key_result,
          sp, sp_hist, rq, rq_hist, api_counter>>

decVars == <<polyline_str, dec, prev_call>>

aggVars == <<row, segment_weights, segment_metadata, processed_segments,
             combined_segments, seg_idx, current_segment, current_weight,
             geojson_data, pc, route_log>>

keyVars == <<key_args, key_result>>

placeVars == <<sp, sp_hist>>

svVars == <<rq, rq_hist, api_counter>>

\* what a step of decode_polyline, of create_weighted_routes_geojson, of
\* segment_key cannot touch
outsideDecoder == <<aggVars, keyVars, placeVars, svVars>>
outsideAggregator == <<decVars, keyVars, placeVars, svVars>>
outsideKey == <<decVars, aggVars, placeVars, svVars>>
outsidePlaces == <<decVars, aggVars, keyVars, svVars>>
outsideStreetview == <<decVars, aggVars, keyVars, placeVars>>

----------------------------------------------------------------------------
(* Bounds of the model.                                                    *)

\* longest string handed to decode_polyline in SpecDecode
MaxLen == 5

\* most rows the routes CSV holds
MaxRoutes == 3

\* longest string handed to decode_polyline in SpecRecall
MaxRecallLen == 2

\* most rows the routes CSV holds in SpecRoutes
MaxLoggedRoutes == 2

\* most rows the routes CSV holds in SpecMerge
MaxMergeRoutes == 2

\* place-csv.py line 21 sets the ceiling to 1000; the model scales it down
MAX_API_CALLS == 6

\* place-csv.py line 22
MAX_CALLS_PER_POINT == 3

\* most grid points generate_grid_points returns in SpecPlaces
MaxPoints == 2

\* most results on one page of places_nearby in SpecPlaces
MaxResults == 2

\* direction_street_view_collector.py line 18 sets the ceiling of the
\* APICallCounter to 500; the model scales it down
max_calls == 8

\* most fetch_streetview calls of one run of collect_streetview_data
MaxImages == 2

\* most requests of one call the model follows
MaxRequests == 9

\* streetview_simple.py lines 23 and 79, collector line 124, in tenths of a
\* second
initial_delay == 1

\* streetview_simple.py lines 24 and 80, collector line 125, in tenths of a
\* second
max_delay == 50

\* largest |lng| and |lat| (in 1e-5 degrees) handed to segment_key in SpecKey
KeyCoordMax == 2

----------------------------------------------------------------------------
(* Python integer arithmetic (unbounded two's complement).                 *)

RECURSIVE Pow2(_)
Pow2(n) == IF n = 0 THEN 1 ELSE 2 * Pow2(n - 1)

\* a & m for m >= 0
RECURSIVE BitAnd(_, _)
BitAnd(a, m) ==
    IF m = 0 THEN 0
    ELSE (a % 2) * (m % 2) + 2 * BitAnd(a \div 2, m \div 2)

\* a | b for a, b >= 0
RECURSIVE BitOr(_, _)
BitOr(a, b) ==
    IF a = 0 THEN b
    ELSE IF b = 0 THEN a
    ELSE (IF a % 2 = 1 \/ b % 2 = 1 THEN 1 ELSE 0) + 2 * BitOr(a \div 2, b \div 2)

\* a << n
Shl(a, n) == a * Pow2(n)

\* a >> 1
Shr1(a) == a \div 2

\* ~a
BitNot(a) == -a - 1

Abs(x) == IF x < 0 THEN -x ELSE x

----------------------------------------------------------------------------
(* decode_polyline, lines 14-42.                                           *)
(* dec.at is the position of the call:                                     *)
(*   "idle"       no call in progress                                      *)
(*   "read"       about to execute line 25 (read one byte)                 *)
(*   "zigzag"     the inner loop broke at line 30; about to run 32-35      *)
(*   "return"     line 42 returned dec.coordinates                         *)
(*   "IndexError" polyline_str[index] at line 25 raised                    *)

\* lines 16-18, then the loop test of line 20 and the loop heads 21-22
MutDecodeEnterStale(s) ==
    [index |-> 0, lat |-> dec.lat, lng |-> dec.lng, coordinates |-> <<>>,
     changes |-> [latitude |-> 0, longitude |-> 0],
     unit |-> "latitude", shift |-> 0, result |-> 0, byte |-> 0,
     at |-> IF 0 < Len(s) THEN "read" ELSE "return"]
MutDecodeEnter(s) ==
    [index |-> 0, lat |-> 0, lng |-> 0, coordinates |-> <<>>,
     changes |-> [latitude |-> 0, longitude |-> 0],
     unit |-> "latitude", shift |-> 0, result |-> 0, byte |-> 0,
     at |-> "read"]
DecodeEnter(s) ==
    [index |-> 0, lat |-> 0, lng |-> 0, coordinates |-> <<>>,
     changes |-> [latitude |-> 0, longitude |-> 0],
     unit |-> "latitude", shift |-> 0, result |-> 0, byte |-> 0,
     at |-> IF 0 < Len(s) THEN "read" ELSE "return"]

\* line 29: the inner loop goes on while byte >= 0x20
Continues(byte) == byte >= 32

\* line 27: result |= (byte & 0x1f) << shift
Accumulate(result, byte, shift) == BitOr(result, Shl(BitAnd(byte, 31), shift))

\* lines 25-30: one pass of the inner while loop
ReadByte(s, d) ==
    IF d.index >= Len(s)
    THEN [d EXCEPT !.at = "IndexError"]
    ELSE LET byte == s[d.index + 1] - 63
         IN  [d EXCEPT !.byte = byte,
                       !.index = d.index + 1,
                       !.result = Accumulate(d.result, byte, d.shift),
                       !.shift = d.shift + 5,
                       !.at = IF Continues(byte) THEN "read" ELSE "zigzag"]

\* lines 32-35: the signed delta of a completed integer
MutZigZag(result) ==
    IF BitAnd(result, 1) = 1 THEN -Shr1(result) ELSE Shr1(result)
ZigZag(result) ==
    IF BitAnd(result, 1) = 1 THEN BitNot(Shr1(result)) ELSE Shr1(result)

\* line 40: coordinates.append([lng / 100000.0, lat / 100000.0])
MutCoordinate(lng, lat) == <<lat, lng>>
Coordinate(lng, lat) == <<lng, lat>>

\* lines 32-35, then either the next unit (lines 21-22) or lines 37-40 and
\* the loop test of line 20
EndUnit(s, d) ==
    LET ch == [d.changes EXCEPT ![d.unit] = ZigZag(d.result)]
    IN  IF d.unit = "latitude"
        THEN [d EXCEPT !.changes = ch, !.unit = "longitude",
                       !.shift = 0, !.result = 0, !.at = "read"]
        ELSE LET lat == d.lat + ch.latitude
                 lng == d.lng + ch.longitude
             IN  [d EXCEPT !.changes = ch, !.lat = lat, !.lng = lng,
                           !.coordinates = Append(d.coordinates, Coordinate(lng, lat)),
                           !.unit = "latitude", !.shift = 0, !.result = 0,
                           !.at = IF d.index < Len(s) THEN "read" ELSE "return"]

DecodeStep(s, d) ==
    IF d.at = "read" THEN ReadByte(s, d) ELSE EndUnit(s, d)

RECURSIVE DecodeRun(_, _)
DecodeRun(s, d) ==
    IF d.at \in {"return", "IndexError"} THEN d ELSE DecodeRun(s, DecodeStep(s, d))

\* the call as a whole: its final locals; .at tells return from raise
decode_polyline(s) == DecodeRun(s, DecodeEnter(s))

----------------------------------------------------------------------------
(* Inputs of the decoder specification.                                    *)

\* '>' (below the range), '?', '@', 'A', '_', '`' (in range), DEL (above)
Alphabet == {62, 63, 64, 65, 95, 96, 127}

RECURSIVE StringsUpTo(_)
StringsUpTo(n) ==
    IF n = 0 THEN {<<>>}
    ELSE LET shorter == StringsUpTo(n - 1)
         IN  shorter \cup {Append(s, c) : s \in {t \in shorter : Len(t) = n - 1},
                                          c \in Alphabet}

\* "_p~iF~ps|U"
ScenarioB == <<95, 112, 126, 105, 70, 126, 112, 115, 124, 85>>

DecodeInputs == StringsUpTo(MaxLen) \cup {ScenarioB}

DecodeIdle ==
    [index |-> 0, lat |-> 0, lng |-> 0, coordinates |-> <<>>,
     changes |-> [latitude |-> 0, longitude |-> 0],
     unit |-> "latitude", shift |-> 0, result |-> 0, byte |-> 0, at |-> "idle"]

----------------------------------------------------------------------------
(* segment_key, lines 44-46.                                               *)

\* Python's order on the tuples (lng, lat)
CoordLE(a, b) == a[1] < b[1] \/ (a[1] = b[1] /\ a[2] <= b[2])

MutSegmentKeyUnsorted(coord1, coord2) == <<coord1, coord2>>
\* tuple(sorted([tuple(coord1), tuple(coord2)]))
segment_key(coord1, coord2) ==
    IF CoordLE(coord1, coord2) THEN <<coord1, coord2>> ELSE <<coord2, coord1>>

----------------------------------------------------------------------------
(* Dicts in insertion order: a sequence of [key, weight] items.            *)

Keys(d) == {d[i].key : i \in 1..Len(d)}

IndexOf(d, k) == CHOOSE i \in 1..Len(d) : d[i].key = k

\* d[k] of a defaultdict(float): a missing key is inserted with 0.0
Touch(d, k) == IF k \in Keys(d) THEN d ELSE Append(d, [key |-> k, weight |-> 0])

MutAddWeightOverwrites(d, k, w) ==
    LET t == Touch(d, k)
        i == IndexOf(t, k)
    IN  [t EXCEPT ![i].weight = w]
\* d[k] += w (line 85), once float(row['weight']) has returned w
AddWeight(d, k, w) ==
    LET t == Touch(d, k)
        i == IndexOf(t, k)
    IN  [t EXCEPT ![i].weight = t[i].weight + w]

MutStoreMetadataSorted(sm, k, a, b) ==
    IF k \in DOMAIN sm THEN sm ELSE sm @@ (k :> [start_point |-> k[1], end_point |-> k[2]])
\* lines 88-93: metadata is stored the first time a key is seen
StoreMetadata(sm, k, a, b) ==
    IF k \in DOMAIN sm THEN sm ELSE sm @@ (k :> [start_point |-> a, end_point |-> b])

\* lines 82-93 for a row whose weight float() converts to w: the tables after
\* segments i, i+1, ... of coords have been folded in
RECURSIVE FoldSegments(_, _, _, _, _)
FoldSegments(coords, i, w, sw, sm) ==
    IF i + 1 > Len(coords) THEN [weights |-> sw, metadata |-> sm]
    ELSE LET k == segment_key(coords[i], coords[i + 1])
         IN  FoldSegments(coords, i + 1, w,
                          AddWeight(sw, k, w),
                          StoreMetadata(sm, k, coords[i], coords[i + 1]))

\* line 85 for a row whose weight float() rejects: the target
\* segment_weights[seg_key] is evaluated (and, being a defaultdict, inserted)
\* before float(row['weight']) raises ValueError; nothing else runs
FoldBadWeight(coords, sw) ==
    IF Len(coords) < 2 THEN sw
    ELSE Touch(sw, segment_key(coords[1], coords[2]))

----------------------------------------------------------------------------
(* Inputs of the route loop: what gmaps.directions returns as              *)
(* overview_polyline.points and the CSV's weight cell.                     *)
(* With A = (0,0), B = (0.00001,0), C = (0.00002,0), D = (0.00003,0)       *)
(* as (lng, lat):                                                          *)

PolyEmpty == <<>>                          \* ""        -> []
PolyA     == <<63, 63>>                    \* "??"      -> [A]
PolyAB    == <<63, 63, 63, 65>>            \* "???A"    -> [A, B]
PolyBC    == <<63, 65, 63, 65>>            \* "?A?A"    -> [B, C]
PolyCB    == <<63, 67, 63, 64>>            \* "?C?@"    -> [C, B]
PolyCD    == <<63, 67, 63, 65>>            \* "?C?A"    -> [C, D]
PolyABC   == <<63, 63, 63, 65, 63, 65>>    \* "???A?A"  -> [A, B, C]
PolyAA    == <<63, 63, 63, 63>>            \* "????"    -> [A, A]
PolyTrunc == <<63, 63, 63>>                \* "???"     -> IndexError

Polylines == {PolyEmpty, PolyA, PolyAB, PolyBC, PolyCB, PolyCD, PolyABC,
              PolyAA, PolyTrunc}

\* the weight cell: a number (in 0.0001 units) or text float() rejects
Numeric(n) == [numeric |-> TRUE, value |-> n]
NotNumeric == [numeric |-> FALSE, value |-> 0]

RowWeights == {Numeric(5), Numeric(10), Numeric(15), NotNumeric}

\* line 79 for each polyline the directions service may return
Decoded == [p \in Polylines |-> decode_polyline(p)]

\* abs(other_weight - current_weight) < 0.001, line 121, in 0.0001 units
Tolerance == 10

\* geojson_data before line 153 assigns it
NoGeoJSON == [type |-> "none", features |-> <<>>, total_segments |-> 0]

----------------------------------------------------------------------------
(* Initial state: no decoder call in progress; the route loop of           *)
(* create_weighted_routes_geojson about to start with empty tables         *)
(* (lines 60-62).                                                          *)

\* search_places, lines 89-90
SearchIdle ==
    [at |-> "start", api_calls |-> 0, point_api_calls |-> 0, point_index |-> 0,
     total_points |-> 0, found_places |-> <<>>,
     places_result |-> [results |-> <<>>, next_page_token |-> FALSE],
     place_idx |-> 0]

NoHistory ==
    [saves |-> <<>>, nearby_made |-> 0,
     request |-> [kind |-> "none", place_id |-> "none", outcome |-> "none"]]

\* no call of timezone, streetview or fetch_streetview has been made
NoCall == [fn |-> "none", at |-> "idle", current_delay |-> 0, result |-> "none"]

NoRequests ==
    [requests |-> 0, delays |-> <<>>, slept |-> FALSE, only_errors |-> TRUE,
     response |-> "none", sent |-> 0, calls |-> 0]

\* APICallCounter.__init__, collector lines 33-36
APICallCounter == [current_calls |-> 0]

Init ==
    /\ polyline_str = <<>>
    /\ dec = DecodeIdle
    /\ prev_call = "none"
    /\ row = 0
    /\ segment_weights = <<>>
    /\ segment_metadata = <<>>
    /\ processed_segments = {}
    /\ combined_segments = <<>>
    /\ seg_idx = 0
    /\ current_segment = <<>>
    /\ current_weight = 0
    /\ geojson_data = NoGeoJSON
    /\ pc = "routes"
    /\ route_log = <<>>
    /\ key_args = <<>>
    /\ key_result = <<>>
    /\ sp = SearchIdle
    /\ sp_hist = NoHistory
    /\ rq = NoCall
    /\ rq_hist = NoRequests
    /\ api_counter = APICallCounter

----------------------------------------------------------------------------
(* Steps of search_places (place-csv.py lines 88-237; place-geojson.py     *)
(* lines 149-291 is the same function with another save_results).          *)
(* sp.at: "start"  before gmaps.geocode, line 101                          *)
(*        "point"  at the head of the for loop, line 121                   *)
(*        "page"   at the head of the while loop, line 131                 *)
(*        "places" in the for loop over the results, line 165              *)
(*        "save"   before save_results(found_places), line 226             *)
(*        "log"    after it, at logging.info of line 227                   *)
(*        "done"   returned; "exit" left by sys.exit(0) (line 233);        *)
(*        "raised" left by the raise of line 237                           *)

MutSaveResultsRegular(saves, found_places, interrupted) ==
    Append(saves, [interrupted |-> FALSE, found_places |-> found_places,
                   written |-> DOMAIN found_places # {}])

\* save_results is called (lines 73-86): the call is logged with what it was
\* handed; a file is written when found_places is not empty
save_results(saves, found_places, interrupted) ==
    Append(saves, [interrupted |-> interrupted, found_places |-> found_places,
                   written |-> DOMAIN found_places # {}])

\* a request and how it ended: "ok", "malformed" (a body that lacks a key the
\* code reads), "INVALID_REQUEST" (an ApiError of that status), "ApiError"
\* (of any other status), "Exception" (any other exception)
Request(kind, place_id, outcome) ==
    [kind |-> kind, place_id |-> place_id, outcome |-> outcome]

NoRequest == Request("none", "none", "none")

\* a step of the try block that issues no request
Quiet == sp_hist' = [sp_hist EXCEPT !.request = NoRequest]

\* a step of the try block that issues a request
Issues(kind, place_id, outcome) ==
    sp_hist' = [sp_hist EXCEPT !.request = Request(kind, place_id, outcome)]

\* lines 234-237: an exception reached the outer try
ExceptionHandler(kind, place_id, outcome) ==
    /\ sp' = [sp EXCEPT !.at = "raised"]
    /\ sp_hist' = [sp_hist EXCEPT
                      !.request = Request(kind, place_id, outcome),
                      !.saves = save_results(sp_hist.saves, sp.found_places, TRUE)]

\* line 101 returns a result; lines 107-119
GeocodeOk ==
    /\ sp.at = "start"
    /\ \E n \in 1..MaxPoints :
          sp' = [sp EXCEPT !.at = "point", !.api_calls = sp.api_calls + 1,
                           !.total_points = n]
    /\ Issues("geocode", "none", "ok")
    /\ UNCHANGED outsidePlaces

\* line 101 raises, or returns nothing and line 105 raises
GeocodeFails ==
    /\ sp.at = "start"
    /\ \E outcome \in {"malformed", "ApiError", "Exception"} :
          ExceptionHandler("geocode", "none", outcome)
    /\ UNCHANGED outsidePlaces

\* lines 121-124: the points are exhausted or the ceiling is reached
PointLoopEnds ==
    /\ sp.at = "point"
    /\ sp.point_index = sp.total_points \/ sp.api_calls >= MAX_API_CALLS
    /\ sp' = [sp EXCEPT !.at = "save"]
    /\ Quiet
    /\ UNCHANGED outsidePlaces

\* lines 121-129: the next point
PointStarts ==
    /\ sp.at = "point"
    /\ sp.point_index < sp.total_points
    /\ sp.api_calls < MAX_API_CALLS
    /\ sp' = [sp EXCEPT !.at = "page", !.point_index = sp.point_index + 1,
                        !.point_api_calls = 0]
    /\ sp_hist' = [sp_hist EXCEPT !.request = NoRequest,
                                  !.nearby_made = 0]
    /\ UNCHANGED outsidePlaces

\* line 132, negated: another places_nearby call may be made for this point
CanRequestPage ==
    sp.api_calls < MAX_API_CALLS /\ sp.point_api_calls < MAX_CALLS_PER_POINT

\* lines 132-135
PageBreak ==
    /\ sp.at = "page"
    /\ ~CanRequestPage
    /\ sp' = [sp EXCEPT !.at = "point"]
    /\ Quiet
    /\ UNCHANGED outsidePlaces

PlaceIds == {"p1", "p2"}

\* what places_nearby may return: up to MaxResults results, with or without a
\* next_page_token
Pages ==
    {[results |-> r, next_page_token |-> tk] :
        r \in UNION {[1..n -> PlaceIds] : n \in 0..MaxResults}, tk \in BOOLEAN}

NearbyMade == [sp_hist EXCEPT !.nearby_made = sp_hist.nearby_made + 1]

\* lines 149-154: places_nearby returns a page
NearbyOk ==
    /\ sp.at = "page"
    /\ CanRequestPage
    /\ \E page \in Pages :
          sp' = [sp EXCEPT !.at = "places", !.api_calls = sp.api_calls + 1,
                           !.point_api_calls = sp.point_api_calls + 1,
                           !.places_result = page, !.place_idx = 1]
    /\ sp_hist' = [NearbyMade EXCEPT !.request = Request("places_nearby", "none", "ok")]
    /\ UNCHANGED outsidePlaces

\* lines 156-159: places_nearby raises an ApiError naming INVALID_REQUEST
NearbyInvalidRequest ==
    /\ sp.at = "page"
    /\ CanRequestPage
    /\ sp' = [sp EXCEPT !.at = "point"]
    /\ sp_hist' = [NearbyMade EXCEPT
                      !.request = Request("places_nearby", "none", "INVALID_REQUEST")]
    /\ UNCHANGED outsidePlaces

\* lines 160-162: places_nearby raises another ApiError, re-raised; or an
\* exception that is no ApiError, which line 156 does not catch
NearbyRaises ==
    /\ sp.at = "page"
    /\ CanRequestPage
    /\ sp' = [sp EXCEPT !.at = "raised"]
    /\ \E outcome \in {"ApiError", "Exception"} :
          sp_hist' = [NearbyMade EXCEPT
                        !.request = Request("places_nearby", "none", outcome),
                        !.saves = save_results(sp_hist.saves, sp.found_places, TRUE)]
    /\ UNCHANGED outsidePlaces

\* the place the for loop of line 165 is at
InPlaces == sp.at = "places" /\ sp.place_idx <= Len(sp.places_result.results)
place_id == sp.places_result.results[sp.place_idx]

\* lines 168-170
PlaceDuplicate ==
    /\ InPlaces
    /\ place_id \in DOMAIN sp.found_places
    /\ sp' = [sp EXCEPT !.place_idx = sp.place_idx + 1]
    /\ Quiet
    /\ UNCHANGED outsidePlaces

\* lines 172-174, then lines 219-222 (the same test ends the while loop)
PlaceLimitBreak ==
    /\ InPlaces
    /\ place_id \notin DOMAIN sp.found_places
    /\ sp.point_api_calls >= MAX_CALLS_PER_POINT
    /\ sp' = [sp EXCEPT !.at = "point"]
    /\ Quiet
    /\ UNCHANGED outsidePlaces

\* line 179 is reached for the place
DetailsCalled ==
    /\ InPlaces
    /\ place_id \notin DOMAIN sp.found_places
    /\ sp.point_api_calls < MAX_CALLS_PER_POINT

\* the versions of a place's record the details service may answer with
Records == {"r1", "r2"}

MutStore(found_places, id, record) ==
    [i \in DOMAIN found_places \cup {id} |-> record]
\* line 190: found_places[place_id] = {...}
Store(found_places, id, record) == (id :> record) @@ found_places

\* lines 179-202: gmaps.place returns a full record, which is stored
DetailsStored ==
    /\ DetailsCalled
    /\ \E record \in Records :
          sp' = [sp EXCEPT !.api_calls = sp.api_calls + 1,
                           !.found_places = Store(sp.found_places, place_id, record),
                           !.place_idx = sp.place_idx + 1]
    /\ Issues("place", place_id, "ok")
    /\ UNCHANGED outsidePlaces

\* lines 179-189 and 212-214: gmaps.place returns a body without 'result' or
\* without its geometry; the KeyError is logged and the loop goes on
DetailsMalformed ==
    /\ DetailsCalled
    /\ sp' = [sp EXCEPT !.api_calls = sp.api_calls + 1,
                        !.place_idx = sp.place_idx + 1]
    /\ Issues("place", place_id, "malformed")
    /\ UNCHANGED outsidePlaces

\* lines 204-207 and 212-214: gmaps.place raises an ApiError naming
\* INVALID_REQUEST, or an exception that is no ApiError
DetailsSkipped ==
    /\ DetailsCalled
    /\ sp' = [sp EXCEPT !.place_idx = sp.place_idx + 1]
    /\ \E outcome \in {"INVALID_REQUEST", "Exception"} :
          Issues("place", place_id, outcome)
    /\ UNCHANGED outsidePlaces

\* lines 208-210: gmaps.place raises another ApiError, re-raised
DetailsRaises ==
    /\ DetailsCalled
    /\ ExceptionHandler("place", place_id, "ApiError")
    /\ UNCHANGED outsidePlaces

\* lines 216-222: the results are exhausted
PageEnd ==
    /\ sp.at = "places"
    /\ sp.place_idx > Len(sp.places_result.results)
    /\ sp' = [sp EXCEPT !.at =
                  IF ~sp.places_result.next_page_token
                     \/ sp.point_api_calls >= MAX_CALLS_PER_POINT
                  THEN "point" ELSE "page"]
    /\ Quiet
    /\ UNCHANGED outsidePlaces

\* line 226
SaveResults ==
    /\ sp.at = "save"
    /\ sp' = [sp EXCEPT !.at = "log"]
    /\ sp_hist' = [sp_hist EXCEPT
                      !.request = NoRequest,
                      !.saves = save_results(sp_hist.saves, sp.found_places, FALSE)]
    /\ UNCHANGED outsidePlaces

\* line 227, and the function returns
SearchReturns ==
    /\ sp.at = "log"
    /\ sp' = [sp EXCEPT !.at = "done"]
    /\ Quiet
    /\ UNCHANGED outsidePlaces

\* lines 229-233: Ctrl-C arrives while a statement of the try block (lines
\* 93-227) runs
KeyboardInterrupt ==
    /\ sp.at \in {"start", "point", "page", "places", "save", "log"}
    /\ sp' = [sp EXCEPT !.at = "exit"]
    /\ sp_hist' = [sp_hist EXCEPT
                      !.request = NoRequest,
                      !.saves = save_results(sp_hist.saves, sp.found_places, TRUE)]
    /\ UNCHANGED outsidePlaces

NextPlaces ==
    \/ GeocodeOk
    \/ GeocodeFails
    \/ PointLoopEnds
    \/ PointStarts
    \/ PageBreak
    \/ NearbyOk
    \/ NearbyInvalidRequest
    \/ NearbyRaises
    \/ PlaceDuplicate
    \/ PlaceLimitBreak
    \/ DetailsStored
    \/ DetailsMalformed
    \/ DetailsSkipped
    \/ DetailsRaises
    \/ PageEnd
    \/ SaveResults
    \/ SearchReturns
    \/ KeyboardInterrupt

SpecPlaces == Init /\ [][NextPlaces]_vars

----------------------------------------------------------------------------
(* The retry loops: timezone (streetview_simple.py lines 15-47),           *)
(* streetview (streetview_simple.py lines 50-124) and fetch_streetview     *)
(* (direction_street_view_collector.py lines 112-164), which               *)
(* collect_streetview_data calls once per image (lines 227-244).           *)
(* rq.at: "loop"     at the head of the while loop                         *)
(*        "request"  before requests.get                                   *)
(*        "returned" / "raised": the call has ended                        *)
(* rq.result: "Path", "None" or "timeZoneId"                               *)

CallOver == rq.at \in {"idle", "returned", "raised"}

Called(fn) ==
    /\ rq' = [fn |-> fn, at |-> "loop", current_delay |-> initial_delay,
              result |-> "none"]
    /\ UNCHANGED outsideStreetview

\* timezone or streetview is called: lines 23-24 and 79-80
Call ==
    /\ CallOver
    /\ \E fn \in {"timezone", "streetview"} : Called(fn)
    /\ rq_hist' = [NoRequests EXCEPT !.sent = rq_hist.sent, !.calls = rq_hist.calls]
    /\ UNCHANGED api_counter

\* collector lines 227-234: the next image of the run is fetched; an
\* exception of the last call was caught at line 243
CollectorFetch ==
    /\ CallOver
    /\ rq_hist.calls < MaxImages
    /\ Called("fetch_streetview")
    /\ rq_hist' = [NoRequests EXCEPT !.sent = rq_hist.sent,
                                     !.calls = rq_hist.calls + 1]
    /\ UNCHANGED api_counter

MutAtCeiling(counter) == FALSE
\* collector line 39
AtCeiling(counter) == counter.current_calls >= max_calls

\* APICallCounter.increment, collector lines 38-46, when it returns
increment(counter) == [counter EXCEPT !.current_calls = counter.current_calls + 1]

\* the head of the loop: fetch_streetview counts the call (line 129), and
\* the exception of line 41 leaves the function
LoopHead ==
    /\ rq.at = "loop"
    /\ rq_hist.requests < MaxRequests
    /\ IF rq.fn = "fetch_streetview"
       THEN IF AtCeiling(api_counter)
            THEN /\ rq' = [rq EXCEPT !.at = "raised"]
                 /\ UNCHANGED api_counter
            ELSE /\ rq' = [rq EXCEPT !.at = "request"]
                 /\ api_counter' = increment(api_counter)
       ELSE /\ rq' = [rq EXCEPT !.at = "request"]
            /\ UNCHANGED api_counter
    /\ UNCHANGED <<rq_hist, outsideStreetview>>

\* requests.get is called and the server's answer, or the exception, is
\* back
Sent(response) ==
    [rq_hist EXCEPT !.requests = rq_hist.requests + 1,
                    !.sent = IF rq.fn = "fetch_streetview" THEN rq_hist.sent + 1
                             ELSE rq_hist.sent,
                    !.slept = FALSE,
                    !.only_errors = rq_hist.only_errors /\ response = "RequestException",
                    !.response = response]

\* streetview line 99 and fetch_streetview line 142, when the file exists;
\* lines 108 and 149 when it was written
ImageResult(fn, exists) ==
    IF fn = "streetview" /\ exists THEN "None" ELSE "Path"

\* an image is answered: streetview lines 89-108, fetch_streetview lines
\* 134-149
ResponseImage ==
    /\ rq.at = "request"
    /\ rq.fn \in {"streetview", "fetch_streetview"}
    /\ \E exists \in BOOLEAN :
          rq' = [rq EXCEPT !.at = "returned", !.result = ImageResult(rq.fn, exists)]
    /\ rq_hist' = Sent("image")
    /\ UNCHANGED <<api_counter, outsideStreetview>>

\* timezone lines 34-35
ResponseOK ==
    /\ rq.at = "request"
    /\ rq.fn = "timezone"
    /\ rq' = [rq EXCEPT !.at = "returned", !.result = "timeZoneId"]
    /\ rq_hist' = Sent("OK")
    /\ UNCHANGED <<api_counter, outsideStreetview>>

\* the answers that make the function raise: a JSON body with an
\* error_message or a body that is no JSON (streetview lines 111-116,
\* fetch_streetview lines 151-156), a status other than OK and
\* UNKNOWN_ERROR (timezone lines 36-39)
RaisingResponses(fn) ==
    IF fn = "timezone" THEN {"other_status"} ELSE {"error_message", "not_json"}

ResponseRaises ==
    /\ rq.at = "request"
    /\ rq' = [rq EXCEPT !.at = "raised"]
    /\ \E response \in RaisingResponses(rq.fn) : rq_hist' = Sent(response)
    /\ UNCHANGED <<api_counter, outsideStreetview>>

\* the answers after which no branch returns or raises: a JSON body without
\* error_message (streetview line 113, fetch_streetview line 153), status
\* UNKNOWN_ERROR (timezone line 36)
FallThroughResponse(fn) == IF fn = "timezone" THEN "UNKNOWN_ERROR" ELSE "json_plain"

\* the loop body ends and the while loop starts over
ResponseFallsThrough ==
    /\ rq.at = "request"
    /\ rq' = [rq EXCEPT !.at = "loop"]
    /\ rq_hist' = Sent(FallThroughResponse(rq.fn))
    /\ UNCHANGED <<api_counter, outsideStreetview>>

MutDouble(current_delay) == current_delay + 1
\* current_delay *= 2
Double(current_delay) == current_delay * 2

\* requests.get or raise_for_status raises a RequestException (for timezone,
\* or response.json() a JSONDecodeError): timezone lines 41-47, streetview
\* lines 118-124, fetch_streetview lines 158-164
RequestFails ==
    /\ rq.at = "request"
    /\ IF rq.current_delay > max_delay
       THEN /\ rq' = [rq EXCEPT !.at = "raised"]
            /\ rq_hist' = Sent("RequestException")
       ELSE /\ rq' = [rq EXCEPT !.at = "loop",
                                !.current_delay = Double(rq.current_delay)]
            /\ rq_hist' = [Sent("RequestException") EXCEPT
                              !.delays = Append(rq_hist.delays, rq.current_delay),
                              !.slept = TRUE]
    /\ UNCHANGED <<api_counter, outsideStreetview>>

NextStreetview ==
    \/ Call
    \/ CollectorFetch
    \/ LoopHead
    \/ ResponseImage
    \/ ResponseOK
    \/ ResponseRaises
    \/ ResponseFallsThrough
    \/ RequestFails

SpecStreetview == Init /\ [][NextStreetview]_vars

----------------------------------------------------------------------------
(* Steps of decode_polyline.                                               *)

\* a call decode_polyline(s), made when no call is in progress
DecodeCall ==
    /\ dec.at = "idle"
    /\ \E s \in DecodeInputs :
          /\ polyline_str' = s
          /\ dec' = DecodeEnter(s)
    /\ UNCHANGED <<prev_call, outsideDecoder>>

\* line 25 with index in range, up to the test of line 29
DecodeRead ==
    /\ dec.at = "read"
    /\ dec.index < Len(polyline_str)
    /\ dec' = ReadByte(polyline_str, dec)
    /\ UNCHANGED <<polyline_str, prev_call, outsideDecoder>>

\* line 25 with index = len(polyline_str)
DecodeIndexError ==
    /\ dec.at = "read"
    /\ dec.index >= Len(polyline_str)
    /\ dec' = ReadByte(polyline_str, dec)
    /\ UNCHANGED <<polyline_str, prev_call, outsideDecoder>>

\* lines 32-35 and what follows the end of a unit
DecodeEndUnit ==
    /\ dec.at = "zigzag"
    /\ dec' = EndUnit(polyline_str, dec)
    /\ UNCHANGED <<polyline_str, prev_call, outsideDecoder>>

\* the call is over (line 42 returned, or the IndexError left the frame):
\* its locals are gone and the caller may call again
DecodeExit ==
    /\ dec.at \in {"return", "IndexError"}
    /\ dec' = DecodeIdle
    /\ polyline_str' = <<>>
    /\ UNCHANGED <<prev_call, outsideDecoder>>

NextDecode ==
    \/ DecodeCall
    \/ DecodeRead
    \/ DecodeIndexError
    \/ DecodeEndUnit
    \/ DecodeExit

SpecDecode == Init /\ [][NextDecode]_vars

----------------------------------------------------------------------------
(* Calls of decode_polyline one after the other.  A call starts while dec  *)
(* still holds what the previous call left behind.                         *)

RecallInputs == StringsUpTo(MaxRecallLen)

DecodeCallAgain ==
    /\ dec.at \in {"idle", "return", "IndexError"}
    /\ \E s \in RecallInputs :
          /\ polyline_str' = s
          /\ dec' = DecodeEnter(s)
    /\ prev_call' = IF dec.at = "idle" THEN prev_call ELSE dec.at
    /\ UNCHANGED outsideDecoder

NextRecall ==
    \/ DecodeCallAgain
    \/ DecodeRead
    \/ DecodeIndexError
    \/ DecodeEndUnit

SpecRecall == Init /\ [][NextRecall]_vars

----------------------------------------------------------------------------
(* Calls of segment_key on its own.                                        *)

KeyPoints == {<<lng, lat>> : lng \in -KeyCoordMax..KeyCoordMax,
                             lat \in -KeyCoordMax..KeyCoordMax}

SegmentKeyCall ==
    /\ key_args = <<>>
    /\ \E coord1 \in KeyPoints, coord2 \in KeyPoints :
          /\ key_args' = <<coord1, coord2>>
          /\ key_result' = segment_key(coord1, coord2)
    /\ UNCHANGED outsideKey

SegmentKeyExit ==
    /\ key_args # <<>>
    /\ key_args' = <<>>
    /\ key_result' = <<>>
    /\ UNCHANGED outsideKey

NextKey ==
    \/ SegmentKeyCall
    \/ SegmentKeyExit

SpecKey == Init /\ [][NextKey]_vars

----------------------------------------------------------------------------
(* The route loop, lines 65-99.  One action is one pass of the loop body.  *)

mergeVars == <<processed_segments, combined_segments, seg_idx,
               current_segment, current_weight>>

\* range(len(coords) - 1), line 82, is not empty
MutHasSegments(coords) == Len(coords) >= 1
HasSegments(coords) == Len(coords) >= 2

\* what a pass of the loop body leaves alone whatever its outcome
routeFrame == <<mergeVars, geojson_data, pc, outsideAggregator>>

\* gmaps.directions raises (lines 67-72); caught at line 97
RouteFetchRaisesStep ==
    /\ pc = "routes"
    /\ row' = row + 1
    /\ UNCHANGED <<segment_weights, segment_metadata, routeFrame>>

\* directions_result is empty (lines 74-76)
RouteNoResultStep ==
    /\ pc = "routes"
    /\ row' = row + 1
    /\ UNCHANGED <<segment_weights, segment_metadata, routeFrame>>

\* decode_polyline raises at line 79 (d is what the call came to); caught at
\* line 97
RouteDecodeRaisesStep(d) ==
    /\ pc = "routes"
    /\ d.at = "IndexError"
    /\ row' = row + 1
    /\ UNCHANGED <<segment_weights, segment_metadata, routeFrame>>

\* the polyline decodes and float(row['weight']) raises at line 85 on the
\* first segment; caught at line 97
RouteWeightRaisesStep(d, w) ==
    /\ pc = "routes"
    /\ d.at = "return"
    /\ HasSegments(d.coordinates)
    /\ ~w.numeric
    /\ segment_weights' = FoldBadWeight(d.coordinates, segment_weights)
    /\ row' = row + 1
    /\ UNCHANGED <<segment_metadata, routeFrame>>

\* the try block runs to line 95 (with fewer than 2 coordinates the loop of
\* line 82 has no pass and row['weight'] is never converted)
RouteProcessedStep(d, w) ==
    /\ pc = "routes"
    /\ d.at = "return"
    /\ w.numeric \/ ~HasSegments(d.coordinates)
    /\ LET f == FoldSegments(d.coordinates, 1, w.value,
                             segment_weights, segment_metadata)
       IN  /\ segment_weights' = f.weights
           /\ segment_metadata' = f.metadata
    /\ row' = row + 1
    /\ UNCHANGED routeFrame

\* The passes of the loop on the rows of a CSV of at most MaxRoutes rows.
RouteFetchRaises ==
    /\ row < MaxRoutes
    /\ RouteFetchRaisesStep
    /\ UNCHANGED route_log

RouteNoResult ==
    /\ row < MaxRoutes
    /\ RouteNoResultStep
    /\ UNCHANGED route_log

RouteDecodeRaises ==
    /\ row < MaxRoutes
    /\ \E p \in Polylines : RouteDecodeRaisesStep(Decoded[p])
    /\ UNCHANGED route_log

RouteWeightRaises ==
    /\ row < MaxRoutes
    /\ \E p \in Polylines, w \in RowWeights : RouteWeightRaisesStep(Decoded[p], w)
    /\ UNCHANGED route_log

RouteProcessed ==
    /\ row < MaxRoutes
    /\ \E p \in Polylines, w \in RowWeights : RouteProcessedStep(Decoded[p], w)
    /\ UNCHANGED route_log

\* routes_df.iterrows() is exhausted; lines 102-103
RoutesDone ==
    /\ pc = "routes"
    /\ pc' = "merge"
    /\ seg_idx' = 1
    /\ processed_segments' = {}
    /\ combined_segments' = <<>>
    /\ UNCHANGED <<row, route_log, segment_weights, segment_metadata, current_segment,
                   current_weight, geojson_data, outsideAggregator>>

----------------------------------------------------------------------------
(* The merge pass, lines 105-150.                                          *)
(* pc = "merge"  : the outer for loop of line 105 is at item seg_idx       *)
(* pc = "extend" : the while loop of line 114 is about to scan             *)
(* pc = "done"   : the file is written and the function returned           *)
(* pc = "KeyError" : segment_metadata[...] raised, uncaught                *)

\* line 121
MutIgnoreWeight(other_weight, weight) == TRUE
MutWithinToleranceExact(other_weight, weight) == other_weight = weight
MutWithinTolerance(other_weight, weight) == Abs(other_weight - weight) <= Tolerance
WithinTolerance(other_weight, weight) == Abs(other_weight - weight) < Tolerance

\* lines 111, 127, 132: processed_segments.add(key)
MutProcessedForgets(ps, k) == ps
Processed(ps, k) == ps \cup {k}

\* line 111, the seed of a chain marked as consumed
MutSeedProcessed(ps, k) == ps
SeedProcessed(ps, k) == Processed(ps, k)

\* lines 117-134: the for loop over segment_weights.items() from item j on.
\* The outcome is the first item that extends the chain, at its tail or at
\* its head, a KeyError of the lookup at line 122, or no item at all.
RECURSIVE MutScanFromFirstCandidate(_, _, _, _, _, _)
MutScanFromFirstCandidate(j, sw, sm, ps, cs, cw) ==
    IF j > Len(sw) THEN [kind |-> "none", idx |-> 0]
    ELSE LET k == sw[j].key
         IN  IF k \in ps THEN MutScanFromFirstCandidate(j + 1, sw, sm, ps, cs, cw)
             ELSE IF ~WithinTolerance(sw[j].weight, cw)
                  THEN MutScanFromFirstCandidate(j + 1, sw, sm, ps, cs, cw)
             ELSE IF k \notin DOMAIN sm THEN [kind |-> "KeyError", idx |-> j]
             ELSE IF cs[Len(cs)] = sm[k].start_point THEN [kind |-> "tail", idx |-> j]
             ELSE IF cs[1] = sm[k].end_point THEN [kind |-> "head", idx |-> j]
             ELSE [kind |-> "none", idx |-> 0]
RECURSIVE MutScanFromTailOnly(_, _, _, _, _, _)
MutScanFromTailOnly(j, sw, sm, ps, cs, cw) ==
    IF j > Len(sw) THEN [kind |-> "none", idx |-> 0]
    ELSE LET k == sw[j].key
         IN  IF k \in ps THEN MutScanFromTailOnly(j + 1, sw, sm, ps, cs, cw)
             ELSE IF ~WithinTolerance(sw[j].weight, cw)
                  THEN MutScanFromTailOnly(j + 1, sw, sm, ps, cs, cw)
             ELSE IF k \notin DOMAIN sm THEN [kind |-> "KeyError", idx |-> j]
             ELSE IF cs[Len(cs)] = sm[k].start_point THEN [kind |-> "tail", idx |-> j]
             ELSE MutScanFromTailOnly(j + 1, sw, sm, ps, cs, cw)
RECURSIVE ScanFrom(_, _, _, _, _, _)
ScanFrom(j, sw, sm, ps, cs, cw) ==
    IF j > Len(sw) THEN [kind |-> "none", idx |-> 0]
    ELSE LET k == sw[j].key
         IN  IF k \in ps THEN ScanFrom(j + 1, sw, sm, ps, cs, cw)
             ELSE IF ~WithinTolerance(sw[j].weight, cw)
                  THEN ScanFrom(j + 1, sw, sm, ps, cs, cw)
             ELSE IF k \notin DOMAIN sm THEN [kind |-> "KeyError", idx |-> j]
             ELSE IF cs[Len(cs)] = sm[k].start_point THEN [kind |-> "tail", idx |-> j]
             ELSE IF cs[1] = sm[k].end_point THEN [kind |-> "head", idx |-> j]
             ELSE ScanFrom(j + 1, sw, sm, ps, cs, cw)

Scan == ScanFrom(1, segment_weights, segment_metadata, processed_segments,
                 current_segment, current_weight)

\* lines 140-150
Feature(cs, cw) ==
    [coordinates |-> cs, weight |-> cw, segment_count |-> Len(cs) - 1]

\* the sum of the segment_count properties of a list of Features
RECURSIVE SumSegmentCount(_)
SumSegmentCount(features) ==
    IF features = <<>> THEN 0
    ELSE Head(features).segment_count + SumSegmentCount(Tail(features))

\* lines 106-107: the item is already consumed
MergeSkip ==
    /\ pc = "merge" /\ seg_idx <= Len(segment_weights)
    /\ segment_weights[seg_idx].key \in processed_segments
    /\ seg_idx' = seg_idx + 1
    /\ UNCHANGED <<row, route_log, segment_weights, segment_metadata, processed_segments,
                   combined_segments, current_segment, current_weight, pc, geojson_data, outsideAggregator>>

\* lines 109-111: the item seeds a new chain
MergeSeed ==
    /\ pc = "merge" /\ seg_idx <= Len(segment_weights)
    /\ LET k == segment_weights[seg_idx].key
       IN  /\ k \notin processed_segments
           /\ k \in DOMAIN segment_metadata
           /\ current_segment' = <<segment_metadata[k].start_point,
                                   segment_metadata[k].end_point>>
           /\ current_weight' = segment_weights[seg_idx].weight
           /\ processed_segments' = SeedProcessed(processed_segments, k)
    /\ pc' = "extend"
    /\ UNCHANGED <<row, route_log, segment_weights, segment_metadata, combined_segments,
                   seg_idx, geojson_data, outsideAggregator>>

\* line 109 raises KeyError: the key has no metadata
MergeSeedKeyError ==
    /\ pc = "merge" /\ seg_idx <= Len(segment_weights)
    /\ LET k == segment_weights[seg_idx].key
       IN  /\ k \notin processed_segments
           /\ k \notin DOMAIN segment_metadata
    /\ pc' = "KeyError"
    /\ UNCHANGED <<row, route_log, segment_weights, segment_metadata, mergeVars, geojson_data, outsideAggregator>>

MutExtendTailAppendsStart ==
    /\ pc = "extend"
    /\ Scan.kind = "tail"
    /\ LET k == segment_weights[Scan.idx].key
       IN  /\ current_segment' = Append(current_segment, segment_metadata[k].start_point)
           /\ processed_segments' = Processed(processed_segments, k)
    /\ UNCHANGED <<row, route_log, segment_weights, segment_metadata, combined_segments,
                   seg_idx, current_weight, pc, geojson_data, outsideAggregator>>
\* lines 125-129: a scan ends in an extension at the tail
ExtendTail ==
    /\ pc = "extend"
    /\ Scan.kind = "tail"
    /\ LET k == segment_weights[Scan.idx].key
       IN  /\ current_segment' = Append(current_segment, segment_metadata[k].end_point)
           /\ processed_segments' = Processed(processed_segments, k)
    /\ UNCHANGED <<row, route_log, segment_weights, segment_metadata, combined_segments,
                   seg_idx, current_weight, pc, geojson_data, outsideAggregator>>

\* lines 130-134: a scan ends in an extension at the head
ExtendHead ==
    /\ pc = "extend"
    /\ Scan.kind = "head"
    /\ LET k == segment_weights[Scan.idx].key
       IN  /\ current_segment' = <<segment_metadata[k].start_point>> \o current_segment
           /\ processed_segments' = Processed(processed_segments, k)
    /\ UNCHANGED <<row, route_log, segment_weights, segment_metadata, combined_segments,
                   seg_idx, current_weight, pc, geojson_data, outsideAggregator>>

\* line 122 raises KeyError during a scan
ExtendKeyError ==
    /\ pc = "extend"
    /\ Scan.kind = "KeyError"
    /\ pc' = "KeyError"
    /\ UNCHANGED <<row, route_log, segment_weights, segment_metadata, mergeVars, geojson_data, outsideAggregator>>

\* lines 136-150: a scan extends nothing; the chain is emitted and the outer
\* loop moves on
EmitChain ==
    /\ pc = "extend"
    /\ Scan.kind = "none"
    /\ combined_segments' = Append(combined_segments,
                                   Feature(current_segment, current_weight))
    /\ seg_idx' = seg_idx + 1
    /\ pc' = "merge"
    /\ UNCHANGED <<row, route_log, segment_weights, segment_metadata, processed_segments,
                   current_segment, current_weight, geojson_data, outsideAggregator>>

\* lines 153-161: the FeatureCollection; "project" and "created_at" hold no
\* state of the merge and are left out
MutGeoJSON(features) ==
    [type |-> "FeatureCollection", features |-> features,
     total_segments |-> SumSegmentCount(features)]
GeoJSON(features) ==
    [type |-> "FeatureCollection", features |-> features,
     total_segments |-> Len(features)]

\* lines 153-169: the outer loop is exhausted; the file is written
WriteFile ==
    /\ pc = "merge" /\ seg_idx > Len(segment_weights)
    /\ geojson_data' = GeoJSON(combined_segments)
    /\ pc' = "done"
    /\ UNCHANGED <<row, route_log, segment_weights, segment_metadata, mergeVars,
                   outsideAggregator>>

Next ==
    \/ RouteFetchRaises
    \/ RouteNoResult
    \/ RouteDecodeRaises
    \/ RouteWeightRaises
    \/ RouteProcessed
    \/ RoutesDone
    \/ MergeSkip
    \/ MergeSeed
    \/ MergeSeedKeyError
    \/ ExtendTail
    \/ ExtendHead
    \/ ExtendKeyError
    \/ EmitChain
    \/ WriteFile

Spec == Init /\ [][Next]_vars

----------------------------------------------------------------------------
(* The route loop on its own, with a log of what each pass was given and   *)
(* how it ended (route_log is a history variable; the messages printed at  *)
(* lines 75, 95 and 98 tell the outcomes apart).                           *)

PolyABA == <<63, 63, 63, 65, 63, 64>>      \* "???A?@"  -> [A, B, A]

LoggedPolylines == Polylines \cup {PolyABA}

LoggedDecoded == [p \in LoggedPolylines |-> decode_polyline(p)]

LogRoute(outcome, coords, w) ==
    route_log' = Append(route_log,
                        [outcome |-> outcome, coords |-> coords, weight |-> w])

LoggedFetchRaises ==
    /\ row < MaxLoggedRoutes
    /\ RouteFetchRaisesStep
    /\ LogRoute("fetch_raised", <<>>, NotNumeric)

LoggedNoResult ==
    /\ row < MaxLoggedRoutes
    /\ RouteNoResultStep
    /\ LogRoute("no_result", <<>>, NotNumeric)

LoggedDecodeRaises ==
    /\ row < MaxLoggedRoutes
    /\ \E p \in LoggedPolylines :
          /\ RouteDecodeRaisesStep(LoggedDecoded[p])
          /\ LogRoute("decode_raised", <<>>, NotNumeric)

LoggedWeightRaises ==
    /\ row < MaxLoggedRoutes
    /\ \E p \in LoggedPolylines, w \in RowWeights :
          /\ RouteWeightRaisesStep(LoggedDecoded[p], w)
          /\ LogRoute("weight_raised", LoggedDecoded[p].coordinates, w)

LoggedProcessed ==
    /\ row < MaxLoggedRoutes
    /\ \E p \in LoggedPolylines, w \in RowWeights :
          /\ RouteProcessedStep(LoggedDecoded[p], w)
          /\ LogRoute("processed", LoggedDecoded[p].coordinates, w)

NextRoutes ==
    \/ LoggedFetchRaises
    \/ LoggedNoResult
    \/ LoggedDecodeRaises
    \/ LoggedWeightRaises
    \/ LoggedProcessed

SpecRoutes == Init /\ [][NextRoutes]_vars

----------------------------------------------------------------------------
(* Scenarios A and D: a CSV of two rows whose routes decode as the         *)
(* scenario says, carried through the route loop and the merge pass.       *)
(* The polylines are all strings of "?", "@" and "A" (the deltas 0, -1 and *)
(* +1 in 1e-5 degrees) of three or two coordinates.                        *)

ScenarioChars == {63, 64, 65}

Distinct(coords) ==
    \A i \in 1..Len(coords), j \in 1..Len(coords) : i # j => coords[i] # coords[j]

ScenarioStrings(n) == [1..n -> ScenarioChars]

ScenarioDecoded ==
    [p \in ScenarioStrings(4) \cup ScenarioStrings(6) |-> decode_polyline(p)]

\* Scenario A, row 1: a route over three distinct coordinates, weight 1.0
ScenarioAFirst ==
    /\ row = 0
    /\ \E p \in ScenarioStrings(6) :
          /\ Distinct(ScenarioDecoded[p].coordinates)
          /\ RouteProcessedStep(ScenarioDecoded[p], Numeric(10000))
          /\ LogRoute("processed", ScenarioDecoded[p].coordinates, Numeric(10000))

\* Scenario A, row 2: a route over the same coordinates, weight 2.0
ScenarioASecond ==
    /\ row = 1
    /\ \E p \in ScenarioStrings(6) :
          /\ ScenarioDecoded[p].coordinates = route_log[1].coords
          /\ RouteProcessedStep(ScenarioDecoded[p], Numeric(20000))
          /\ LogRoute("processed", ScenarioDecoded[p].coordinates, Numeric(20000))

\* both rows are read
ScenarioRoutesDone ==
    /\ row = 2
    /\ RoutesDone

NextScenarioA ==
    \/ ScenarioAFirst
    \/ ScenarioASecond
    \/ ScenarioRoutesDone
    \/ MergeSkip
    \/ MergeSeed
    \/ ExtendTail
    \/ EmitChain
    \/ WriteFile

SpecScenarioA == Init /\ [][NextScenarioA]_vars

\* the accumulated weights of scenario D, around 1.000
ScenarioDWeights ==
    {Numeric(9990), Numeric(10000), Numeric(10009), Numeric(10010), Numeric(10020)}

\* Scenario D, row 1: a route of one segment
ScenarioDFirst ==
    /\ row = 0
    /\ \E p \in ScenarioStrings(4), w \in ScenarioDWeights :
          /\ Distinct(ScenarioDecoded[p].coordinates)
          /\ RouteProcessedStep(ScenarioDecoded[p], w)
          /\ LogRoute("processed", ScenarioDecoded[p].coordinates, w)

\* Scenario D, row 2: a route of one other segment that starts where the
\* first one ended
ScenarioDSecond ==
    /\ row = 1
    /\ \E p \in ScenarioStrings(4), w \in ScenarioDWeights :
          /\ Distinct(ScenarioDecoded[p].coordinates)
          /\ ScenarioDecoded[p].coordinates[1] = route_log[1].coords[2]
          /\ ScenarioDecoded[p].coordinates[2] # route_log[1].coords[1]
          /\ RouteProcessedStep(ScenarioDecoded[p], w)
          /\ LogRoute("processed", ScenarioDecoded[p].coordinates, w)

NextScenarioD ==
    \/ ScenarioDFirst
    \/ ScenarioDSecond
    \/ ScenarioRoutesDone
    \/ MergeSkip
    \/ MergeSeed
    \/ ExtendTail
    \/ EmitChain
    \/ WriteFile

SpecScenarioD == Init /\ [][NextScenarioD]_vars

----------------------------------------------------------------------------
(* The merge pass on tables with closed loops, degenerate segments and     *)
(* branching vertices, with weak fairness on its steps: the interpreter    *)
(* goes on executing the loops of lines 105-150 as long as a step is left. *)
(* With E = (0.00001, 0.00001):                                            *)

PolyLoop == <<63, 63, 63, 65, 65, 63, 64, 64>>   \* "???AA?@@" -> [A, B, E, A]

MergePolylines == {PolyLoop, PolyAA, PolyAB, PolyBC, PolyCB}

MergeWeights == {Numeric(5), Numeric(20), NotNumeric}

MergeDecoded == [p \in MergePolylines |-> decode_polyline(p)]

MergeRouteProcessed ==
    /\ row < MaxMergeRoutes
    /\ \E p \in MergePolylines, w \in MergeWeights :
          RouteProcessedStep(MergeDecoded[p], w)
    /\ UNCHANGED route_log

MergeRouteWeightRaises ==
    /\ row < MaxMergeRoutes
    /\ \E p \in MergePolylines, w \in MergeWeights :
          RouteWeightRaisesStep(MergeDecoded[p], w)
    /\ UNCHANGED route_log

MergeStep ==
    \/ MergeSkip
    \/ MergeSeed
    \/ MergeSeedKeyError
    \/ ExtendTail
    \/ ExtendHead
    \/ ExtendKeyError
    \/ EmitChain
    \/ WriteFile

NextMerge ==
    \/ MergeRouteProcessed
    \/ MergeRouteWeightRaises
    \/ RoutesDone
    \/ MergeStep

SpecMerge == Init /\ [][NextMerge]_vars /\ WF_vars(MergeStep)

----------------------------------------------------------------------------
(* The merge pass, lines 102-150, as a function of the two tables, for     *)
(* tables where every key has metadata.                                    *)

\* lines 114-137: the while loop, from the chain cs on
RECURSIVE ExtendChain(_, _, _, _, _)
ExtendChain(sw, sm, ps, cs, cw) ==
    LET s == ScanFrom(1, sw, sm, ps, cs, cw)
    IN  IF s.kind = "tail"
            THEN ExtendChain(sw, sm, Processed(ps, sw[s.idx].key),
                             Append(cs, sm[sw[s.idx].key].end_point), cw)
        ELSE IF s.kind = "head"
            THEN ExtendChain(sw, sm, Processed(ps, sw[s.idx].key),
                             <<sm[sw[s.idx].key].start_point>> \o cs, cw)
        ELSE [segment |-> cs, processed |-> ps]

RECURSIVE MutMergeFromNoSkip(_, _, _, _, _)
MutMergeFromNoSkip(i, sw, sm, ps, cs) ==
    IF i > Len(sw) THEN cs
    ELSE LET k == sw[i].key
             c == ExtendChain(sw, sm, SeedProcessed(ps, k),
                              <<sm[k].start_point, sm[k].end_point>>, sw[i].weight)
         IN  MutMergeFromNoSkip(i + 1, sw, sm, c.processed,
                                Append(cs, Feature(c.segment, sw[i].weight)))

\* lines 105-150: the outer for loop from item i on; cs is combined_segments
RECURSIVE MergeFrom(_, _, _, _, _)
MergeFrom(i, sw, sm, ps, cs) ==
    IF i > Len(sw) THEN cs
    ELSE LET k == sw[i].key
         IN  IF k \in ps THEN MergeFrom(i + 1, sw, sm, ps, cs)
             ELSE LET c == ExtendChain(sw, sm, SeedProcessed(ps, k),
                                       <<sm[k].start_point, sm[k].end_point>>,
                                       sw[i].weight)
                  IN  MergeFrom(i + 1, sw, sm, c.processed,
                                Append(cs, Feature(c.segment, sw[i].weight)))

\* lines 102-150
MergePass(sw, sm) == MergeFrom(1, sw, sm, {}, <<>>)

----------------------------------------------------------------------------
(* Vocabulary of the properties.                                           *)

\* the keys behind the consecutive coordinate pairs of a chain
ChainKey(coords, i) == segment_key(coords[i], coords[i + 1])

\* the places (Feature n, edge i) of the output where key k is a constituent
Occurrences(k) ==
    {<<n, i>> \in (1..Len(combined_segments)) \X (1..(Len(segment_weights) + 1)) :
        /\ i < Len(combined_segments[n].coordinates)
        /\ ChainKey(combined_segments[n].coordinates, i) = k}

\* the accumulated weight of a key of the table
WeightOf(k) == segment_weights[IndexOf(segment_weights, k)].weight

\* the accumulated weight of the segment behind edge i of a chain
EdgeWeight(coords, i) == WeightOf(ChainKey(coords, i))

Features == {combined_segments[n] : n \in 1..Len(combined_segments)}

Edges(f) == 1..(Len(f.coordinates) - 1)

----------------------------------------------------------------------------
(* Properties of the route loop and the merge pass (Spec).                 *)

\* C1: when the merge pass has finished, every key of segment_weights is a
\* constituent of exactly one emitted Feature, at exactly one edge of it, and
\* the segment_count values of the Features add up to the number of keys.
C1_Coverage ==
    pc = "done" =>
        /\ \A k \in Keys(segment_weights) : Cardinality(Occurrences(k)) = 1
        /\ SumSegmentCount(combined_segments) = Cardinality(Keys(segment_weights))

\* a finished merge pass that emitted a merged chain and another Feature
C1_Witness ==
    /\ pc = "done"
    /\ Len(combined_segments) >= 2
    /\ \E f \in Features : f.segment_count >= 2

\* C2: whatever routes fail in the loop, the function goes on to finish the
\* merge pass and to write the file: it is never left by an uncaught exception.
C2_NoUncaughtException == pc \in {"routes", "merge", "extend", "done"}

\* C3: after any number of routes, every key of segment_weights has an entry
\* in segment_metadata whose two endpoints canonicalize to the key.
C3_MetadataForEveryKey ==
    \A k \in Keys(segment_weights) :
        /\ k \in DOMAIN segment_metadata
        /\ segment_key(segment_metadata[k].start_point,
                       segment_metadata[k].end_point) = k

\* C4 as stated: the weight a Feature reports equals the accumulated weight
\* of each of its constituent keys.
C4_WeightEqualsEachConstituent ==
    \A f \in Features : \A i \in Edges(f) :
        EdgeWeight(f.coordinates, i) = f.weight

\* C4 as amended: the weight a Feature reports is the accumulated weight of
\* one of its constituent keys (its seed), and the accumulated weight of every
\* constituent key differs from it by less than the tolerance.
C4_WeightWithinTolerance ==
    \A f \in Features :
        /\ \E i \in Edges(f) : EdgeWeight(f.coordinates, i) = f.weight
        /\ \A i \in Edges(f) :
              Abs(EdgeWeight(f.coordinates, i) - f.weight) < Tolerance

\* an emitted chain with a constituent whose weight is not the reported one
C4_Witness ==
    \E f \in Features :
        /\ f.segment_count >= 2
        /\ \E i \in Edges(f) : EdgeWeight(f.coordinates, i) # f.weight

\* C5 as stated: the segments behind two consecutive edges of an emitted
\* chain have accumulated weights less than the tolerance apart.
C5_ConsecutiveWithinTolerance ==
    \A f \in Features : \A i \in Edges(f) :
        (i + 1) \in Edges(f) =>
            Abs(EdgeWeight(f.coordinates, i) - EdgeWeight(f.coordinates, i + 1))
                < Tolerance

\* C5 as amended: the segments behind two consecutive edges of an emitted
\* chain each have an accumulated weight less than the tolerance from the
\* weight the chain reports, and so are less than twice the tolerance apart.
C5_ConsecutiveWithinTwiceTolerance ==
    \A f \in Features : \A i \in Edges(f) :
        (i + 1) \in Edges(f) =>
            /\ Abs(EdgeWeight(f.coordinates, i) - f.weight) < Tolerance
            /\ Abs(EdgeWeight(f.coordinates, i + 1) - f.weight) < Tolerance
            /\ Abs(EdgeWeight(f.coordinates, i) - EdgeWeight(f.coordinates, i + 1))
                  < 2 * Tolerance

\* an emitted chain with two consecutive edges a full tolerance apart
C5_Witness ==
    \E f \in Features : \E i \in Edges(f) :
        /\ (i + 1) \in Edges(f)
        /\ Abs(EdgeWeight(f.coordinates, i) - EdgeWeight(f.coordinates, i + 1))
              >= Tolerance

----------------------------------------------------------------------------
(* Reference reading of an encoded string, independent of the decoder's    *)
(* loop: the characters are cut into integers at the characters whose      *)
(* value (code point - 63) is below 32, an integer's raw value is the      *)
(* base-32 number of its 5-bit payloads, least significant first.          *)

InRange(c) == 63 <= c /\ c <= 126

\* the character ends an integer
Terminal(c) == c - 63 < 32

HasOutOfRange(s) == \E i \in 1..Len(s) : ~InRange(s[i])

NumIntegers(s) == Cardinality({i \in 1..Len(s) : Terminal(s[i])})

\* the string stops in the middle of a variable-length integer
TruncatedInteger(s) == Len(s) > 0 /\ ~Terminal(s[Len(s)])

\* the string stops between a latitude and its longitude
TruncatedPair(s) == NumIntegers(s) % 2 = 1

Malformed(s) == HasOutOfRange(s) \/ TruncatedInteger(s) \/ TruncatedPair(s)

WellFormed(s) == ~Malformed(s)

\* raw values of the integers of s[i..], given the value v gathered so far
\* for the current integer and the weight m of its next payload
RECURSIVE RawFrom(_, _, _, _)
RawFrom(s, i, v, m) ==
    IF i > Len(s) THEN <<>>
    ELSE LET w == v + ((s[i] - 63) % 32) * m
         IN  IF Terminal(s[i])
             THEN <<w>> \o RawFrom(s, i + 1, 0, 1)
             ELSE RawFrom(s, i + 1, w, m * 32)

\* a raw value v stands for ~(v >> 1) = -(v div 2) - 1 if v is odd, else v >> 1
RefDelta(v) == IF v % 2 = 1 THEN -(v \div 2) - 1 ELSE v \div 2

RefDeltas(s) == LET raw == RawFrom(s, 1, 0, 1)
                IN  [j \in 1..Len(raw) |-> RefDelta(raw[j])]

\* sum of deltas[j0], deltas[j0 + 2], ..., up to index last
RECURSIVE SumEveryOther(_, _, _)
SumEveryOther(deltas, j, last) ==
    IF j > last THEN 0 ELSE deltas[j] + SumEveryOther(deltas, j + 2, last)

\* the k-th coordinate (lng, lat): latitude deltas sit at the odd places
RefCoordinate(deltas, k) ==
    <<SumEveryOther(deltas, 2, 2 * k), SumEveryOther(deltas, 1, 2 * k)>>

\* bit 0x20 of a Python int (two's complement)
Bit0x20(b) == (b \div 32) % 2 = 1

----------------------------------------------------------------------------
(* Properties of decode_polyline (SpecDecode).                             *)

\* C6 as stated: decode_polyline("_p~iF~ps|U") returns the single coordinate
\* (-179.98300, 38.5) as (longitude, latitude).
C6_ScenarioB_Stated ==
    (polyline_str = ScenarioB /\ dec.at = "return") =>
        dec.coordinates = << <<-17998300, 3850000>> >>

\* C6 as amended: decode_polyline("_p~iF~ps|U") returns the single coordinate
\* (-120.2, 38.5) as (longitude, latitude).
C6_ScenarioB ==
    (polyline_str = ScenarioB /\ dec.at = "return") =>
        dec.coordinates = << <<-12020000, 3850000>> >>

\* the call on "_p~iF~ps|U" has returned
C6_Witness == polyline_str = ScenarioB /\ dec.at = "return"

\* C7: on a string that is truncated inside an integer or inside a pair, or
\* that holds a character outside 63..126, decode_polyline raises: it never
\* returns a coordinate list.
C7_MalformedRaises == dec.at = "return" => ~Malformed(polyline_str)

\* C8: in every pass of the inner loop that reads a character, whatever the
\* character, the loop goes on to a further byte exactly when bit 0x20 of the
\* value just read is set, and the value's low 5 bits, shifted, are what is
\* added to the result.
C8_ContinuationRule ==
    [][(dec.at = "read" /\ dec'.at \in {"read", "zigzag"}) =>
          /\ dec'.byte = polyline_str[dec.index + 1] - 63
          /\ (dec'.at = "read") <=> Bit0x20(dec'.byte)
          /\ dec'.result = dec.result + (dec'.byte % 32) * Pow2(dec.shift)]_vars

\* C8 on the characters of the encoding only (code points 63..126): there
\* the loop goes on exactly when bit 0x20 of the value is set.
C8_ContinuationRuleInRange ==
    [][(dec.at = "read" /\ dec'.at \in {"read", "zigzag"}
          /\ InRange(polyline_str[dec.index + 1])) =>
          /\ dec'.byte = polyline_str[dec.index + 1] - 63
          /\ (dec'.at = "read") <=> Bit0x20(dec'.byte)
          /\ dec'.result = dec.result + (dec'.byte % 32) * Pow2(dec.shift)]_vars

\* C9: on a well-formed string the k-th returned coordinate is (sum of the
\* first k longitude deltas, sum of the first k latitude deltas), in 1e-5
\* units, the deltas read latitude first and zig-zag decoded.
C9_ReferenceEquivalence ==
    (dec.at = "return" /\ WellFormed(polyline_str)) =>
        LET deltas == RefDeltas(polyline_str)
        IN  \A k \in 1..(Len(deltas) \div 2) :
               /\ k <= Len(dec.coordinates)
               /\ dec.coordinates[k] = RefCoordinate(deltas, k)

\* a returned call on a well-formed string of two pairs, with a negative
\* delta and an integer of more than one character
C9_Witness ==
    /\ dec.at = "return" /\ WellFormed(polyline_str)
    /\ Len(dec.coordinates) = 2
    /\ dec.coordinates[1][1] < 0
    /\ \E i \in 1..Len(polyline_str) : ~Terminal(polyline_str[i])

\* C10: the call on the empty string returns the empty list; the call on a
\* well-formed string does not raise and returns one coordinate per pair of
\* integers, having consumed the whole string.
C10_OutputLength ==
    /\ (dec.at # "idle" /\ polyline_str = <<>>) =>
          (dec.at = "return" /\ dec.coordinates = <<>>)
    /\ (dec.at = "IndexError") => ~WellFormed(polyline_str)
    /\ (dec.at = "return" /\ WellFormed(polyline_str)) =>
          /\ Len(dec.coordinates) = NumIntegers(polyline_str) \div 2
          /\ dec.index = Len(polyline_str)

\* a returned call on a well-formed string of two pairs
C10_Witness ==
    /\ dec.at = "return" /\ WellFormed(polyline_str)
    /\ Len(polyline_str) = 4
    /\ Len(dec.coordinates) = 2

----------------------------------------------------------------------------
(* Properties of repeated calls of decode_polyline (SpecRecall).           *)

\* what decode_polyline(s) comes to when it is the first call made, in the
\* initial state
FirstCall(s) ==
    DecodeRun(s, [DecodeIdle EXCEPT !.at = IF 0 < Len(s) THEN "read" ELSE "return"])

\* C11: a call of decode_polyline on s, whatever calls came before it and
\* however they ended, ends as the first call on s would (it returns the same
\* list, or raises as well); and while a call runs, nothing but its own
\* locals changes: not its argument, not any state of the rest of the program.
C11_Purity ==
    /\ [](dec.at \in {"return", "IndexError"} =>
            /\ dec.at = FirstCall(polyline_str).at
            /\ dec.at = "return" =>
                  dec.coordinates = FirstCall(polyline_str).coordinates)
    /\ [][dec.at \in {"read", "zigzag"} =>
            /\ polyline_str' = polyline_str
            /\ UNCHANGED outsideDecoder]_vars

\* a call that returned coordinates away from the origin, made after a call
\* that raised
C11_Witness ==
    /\ dec.at = "return"
    /\ prev_call = "IndexError"
    /\ Len(dec.coordinates) >= 1
    /\ dec.coordinates[1] # <<0, 0>>

----------------------------------------------------------------------------
(* Properties of segment_key (SpecKey).                                    *)

\* C12: segment_key(a, b) = segment_key(b, a) for all coordinates a and b,
\* a = b included: the key returned for (a, b) is the key of (b, a), it holds
\* the two arguments, and its first point is not above its second.
C12_KeySymmetric ==
    key_args # <<>> =>
        /\ key_result = segment_key(key_args[2], key_args[1])
        /\ key_result \in {<<key_args[1], key_args[2]>>, <<key_args[2], key_args[1]>>}
        /\ CoordLE(key_result[1], key_result[2])

\* segment_key was handed two different points in descending order and
\* returned them swapped
C12_Witness ==
    /\ key_args # <<>>
    /\ key_args[1] # key_args[2]
    /\ key_result = <<key_args[2], key_args[1]>>

----------------------------------------------------------------------------
(* Properties of the route loop (SpecRoutes).                              *)

\* the consecutive pairs of coords the loop of line 82 reaches in a pass that
\* ended as outcome: all of them when the pass ran to line 95, the first one
\* when float() raised on it, none otherwise
PairsReached(r) ==
    IF r.outcome = "processed" THEN 1..(Len(r.coords) - 1)
    ELSE IF r.outcome = "weight_raised" THEN {1}
    ELSE {}

\* how often route r traverses the segment of key k, in either direction
Traversals(r, k) ==
    Cardinality({i \in PairsReached(r) :
                    segment_key(r.coords[i], r.coords[i + 1]) = k})

\* the sum, over the first n logged routes that were processed, of the
\* route's weight once per traversal of k
RECURSIVE LoggedSum(_, _)
LoggedSum(k, n) ==
    IF n = 0 THEN 0
    ELSE LoggedSum(k, n - 1)
         + (IF route_log[n].outcome = "processed" /\ Traversals(route_log[n], k) > 0
                THEN route_log[n].weight.value * Traversals(route_log[n], k)
                ELSE 0)

ProcessedKeys ==
    UNION {{segment_key(route_log[n].coords[i], route_log[n].coords[i + 1]) :
               i \in PairsReached(route_log[n])} :
           n \in {m \in 1..Len(route_log) : route_log[m].outcome = "processed"}}

\* C13: after any sequence of routes none of which failed on its weight, the
\* keys of segment_weights are exactly the keys of the consecutive pairs of
\* the processed routes, each once, and each key's value is the sum of the
\* route's weight over every traversal of the key by every processed route.
C13_WeightAccumulation ==
    (\A n \in 1..Len(route_log) : route_log[n].outcome # "weight_raised") =>
        /\ Keys(segment_weights) = ProcessedKeys
        /\ Cardinality(Keys(segment_weights)) = Len(segment_weights)
        /\ \A i \in 1..Len(segment_weights) :
              segment_weights[i].weight
                  = LoggedSum(segment_weights[i].key, Len(route_log))

\* two processed routes of different weights went over the same segment, one
\* of them once and the other twice (there and back)
C13_Witness ==
    /\ Len(route_log) = 2
    /\ \A n \in 1..2 : route_log[n].outcome = "processed"
    /\ route_log[1].weight.value # route_log[2].weight.value
    /\ \E i \in 1..Len(segment_weights) :
          /\ Traversals(route_log[1], segment_weights[i].key) = 1
          /\ Traversals(route_log[2], segment_weights[i].key) = 2

\* the first logged pass, and the first pair in it, to reach the segment of
\* key k
FirstRoute(k) ==
    CHOOSE n \in 1..Len(route_log) :
        /\ Traversals(route_log[n], k) > 0
        /\ \A m \in 1..(n - 1) : Traversals(route_log[m], k) = 0

FirstPair(k) ==
    LET r == route_log[FirstRoute(k)]
    IN  CHOOSE i \in PairsReached(r) :
            /\ segment_key(r.coords[i], r.coords[i + 1]) = k
            /\ \A j \in PairsReached(r) :
                  segment_key(r.coords[j], r.coords[j + 1]) = k => i <= j

\* C14: the metadata stored for a key runs from the first point to the second
\* point of the first traversal that created the key.
C14_FirstTraversalOrientation ==
    \A k \in DOMAIN segment_metadata :
        LET r == route_log[FirstRoute(k)]
            i == FirstPair(k)
        IN  /\ segment_metadata[k].start_point = r.coords[i]
            /\ segment_metadata[k].end_point = r.coords[i + 1]

\* C14, the part that holds: metadata once stored is never changed or removed
\* by a later pass, whatever that pass adds to the weights.
C14_MetadataWriteOnce ==
    [][\A k \in DOMAIN segment_metadata :
          /\ k \in DOMAIN segment_metadata'
          /\ segment_metadata'[k] = segment_metadata[k]]_vars

\* C15: a pass whose polyline decodes to fewer than 2 coordinates changes
\* neither segment_weights nor segment_metadata and ends as successfully
\* processed (line 95), whatever the row's weight cell holds.
C15_ShortRoute ==
    [][(/\ Len(route_log') = Len(route_log) + 1
        /\ route_log'[Len(route_log')].outcome \in {"processed", "weight_raised"}
        /\ Len(route_log'[Len(route_log')].coords) < 2)
       => /\ route_log'[Len(route_log')].outcome = "processed"
          /\ segment_weights' = segment_weights
          /\ segment_metadata' = segment_metadata]_vars

\* a route of one coordinate whose weight cell is no number was processed
\* after a route that had filled the tables
C15_Witness ==
    /\ Len(route_log) = 2
    /\ route_log[2].outcome = "processed"
    /\ Len(route_log[2].coords) = 1
    /\ ~route_log[2].weight.numeric
    /\ Len(segment_weights) >= 1
    /\ DOMAIN segment_metadata = Keys(segment_weights)

----------------------------------------------------------------------------
(* Scenarios A and D (SpecScenarioA, SpecScenarioD).                       *)

\* the steps of the merge pass the scenario specifications leave out
OtherMergeStep == MergeSeedKeyError \/ ExtendHead \/ ExtendKeyError

\* C16: for any three distinct coordinates A, B, C, once two routes over
\* A, B, C of weights 1.0 and 2.0 are processed the weight table holds exactly
\* key(A,B) = 3.0 and key(B,C) = 3.0, and the merge pass (which never meets a
\* KeyError and never extends at the head) writes exactly one Feature:
\* coordinates [A, B, C], weight 3.0, segment_count 2.
C16_ScenarioA ==
    /\ ~ENABLED OtherMergeStep
    /\ row = 2 =>
          LET c == route_log[1].coords
          IN  /\ segment_weights = <<[key |-> segment_key(c[1], c[2]), weight |-> 30000],
                                     [key |-> segment_key(c[2], c[3]), weight |-> 30000]>>
              /\ pc = "done" =>
                    geojson_data.features
                        = <<[coordinates |-> c, weight |-> 30000, segment_count |-> 2]>>

\* the file is written for a route A, B, C that runs against the order of the
\* keys (B sorts before A)
C16_Witness ==
    /\ pc = "done"
    /\ Len(route_log) = 2
    /\ Len(geojson_data.features) = 1
    /\ ~CoordLE(route_log[1].coords[1], route_log[1].coords[2])

C17_WitnessApart ==
    /\ pc = "done"
    /\ Len(segment_weights) = 2
    /\ segment_weights[1].weight = 10000
    /\ segment_weights[2].weight = 10010
    /\ Len(geojson_data.features) = 2

----------------------------------------------------------------------------
(* Properties of the written FeatureCollection (Spec).                     *)

\* the keys of the elementary segments of a chain
ChainKeys(f) == {ChainKey(f.coordinates, i) : i \in Edges(f)}

\* C18: in the written output no Feature leaves out a segment of its own
\* weight that has an endpoint at the Feature's first or last coordinate.
C18_Maximal ==
    pc = "done" =>
        \A f \in Features, k \in Keys(segment_weights) :
            (k \notin ChainKeys(f) /\ WeightOf(k) = f.weight) =>
                {k[1], k[2]} \cap {f.coordinates[1], f.coordinates[Len(f.coordinates)]} = {}

\* C18 as the merge pass has it: no segment of a Feature emitted later, whose
\* weight is within 0.001 of the Feature's weight, has its stored start at the
\* Feature's last coordinate or its stored end at the Feature's first one.
C18_MaximalByJoinRule ==
    pc = "done" =>
        \A n \in 1..Len(combined_segments), m \in 1..Len(combined_segments) :
            n < m =>
                \A k \in ChainKeys(combined_segments[m]) :
                    LET f == combined_segments[n]
                    IN  WithinTolerance(WeightOf(k), f.weight) =>
                            /\ segment_metadata[k].start_point
                                  # f.coordinates[Len(f.coordinates)]
                            /\ segment_metadata[k].end_point # f.coordinates[1]

\* two Features of one weight were written that end at the same coordinate
C18_Witness ==
    /\ pc = "done"
    /\ \E n \in 1..Len(combined_segments), m \in 1..Len(combined_segments) :
          /\ n < m
          /\ combined_segments[n].weight = combined_segments[m].weight
          /\ combined_segments[n].coordinates[Len(combined_segments[n].coordinates)]
                = combined_segments[m].coordinates[Len(combined_segments[m].coordinates)]

\* the table in another insertion order
Reordered(sw, pi) == [i \in 1..Len(sw) |-> sw[pi[i]]]

\* the places (Feature n, edge i) of a list of Features where key k lies
OccurrencesIn(features, k) ==
    {<<n, i>> \in (1..Len(features)) \X (1..Len(segment_weights)) :
        /\ i < Len(features[n].coordinates)
        /\ ChainKey(features[n].coordinates, i) = k}

\* C19: the written Features are what the merge pass makes of the tables, and
\* for every other insertion order of the same weighted, oriented segments
\* the merge pass puts every key in exactly one chain, at one edge, and the
\* segment_count values add up to the number of keys.
C19_CoverageInEveryOrder ==
    pc = "done" =>
        /\ combined_segments = MergePass(segment_weights, segment_metadata)
        /\ \A pi \in Permutations(1..Len(segment_weights)) :
              LET features == MergePass(Reordered(segment_weights, pi), segment_metadata)
              IN  /\ \A k \in Keys(segment_weights) :
                        Cardinality(OccurrencesIn(features, k)) = 1
                  /\ SumSegmentCount(features) = Len(segment_weights)

\* a table that another insertion order turns into a different number of
\* Features with different coordinate lists
C19_Witness ==
    /\ pc = "done"
    /\ \E pi \in Permutations(1..Len(segment_weights)) :
          LET features == MergePass(Reordered(segment_weights, pi), segment_metadata)
          IN  /\ Len(features) # Len(combined_segments)
              /\ features[1].coordinates # combined_segments[1].coordinates

\* C20: every Feature of the written file has at least 2 coordinates and a
\* segment_count of len(coordinates) - 1, so at least 1, and the collection's
\* total_segments is the number of Features.
C20_OutputShape ==
    /\ \A n \in 1..Len(combined_segments) :
          /\ Len(combined_segments[n].coordinates) >= 2
          /\ combined_segments[n].segment_count
                = Len(combined_segments[n].coordinates) - 1
          /\ combined_segments[n].segment_count >= 1
    /\ pc = "done" =>
          /\ geojson_data.features = combined_segments
          /\ geojson_data.total_segments = Len(geojson_data.features)

\* a file of two Features, one of them a chain of two segments
C20_Witness ==
    /\ pc = "done"
    /\ Len(geojson_data.features) = 2
    /\ \E n \in 1..2 : geojson_data.features[n].segment_count = 2

----------------------------------------------------------------------------
(* Properties of the chain under construction (Spec).                      *)

\* the stored (start, end) of key k is the pair (a, b)
StoredAs(k, a, b) ==
    /\ k \in DOMAIN segment_metadata
    /\ segment_metadata[k].start_point = a
    /\ segment_metadata[k].end_point = b

\* C23: while a chain is under construction, each consecutive pair of its
\* coordinates is the stored (start, end) of a processed key, a different key
\* for each pair; and a step that changes the chain consumes exactly one
\* unprocessed key k and either appends k's stored end, k's stored start being
\* the chain's last coordinate, or prepends k's stored start, k's stored end
\* being the chain's first coordinate.
C23_ChainConnectivity ==
    /\ [](pc = "extend" =>
            /\ \A i \in 1..(Len(current_segment) - 1) :
                  /\ ChainKey(current_segment, i) \in processed_segments
                  /\ StoredAs(ChainKey(current_segment, i),
                              current_segment[i], current_segment[i + 1])
            /\ \A i \in 1..(Len(current_segment) - 1),
                  j \in 1..(Len(current_segment) - 1) :
                  i # j => ChainKey(current_segment, i) # ChainKey(current_segment, j))
    /\ [][(pc = "extend" /\ current_segment' # current_segment) =>
            \E k \in Keys(segment_weights) \ processed_segments :
                /\ processed_segments' = processed_segments \cup {k}
                /\ k \in DOMAIN segment_metadata
                /\ \/ /\ segment_metadata[k].start_point
                            = current_segment[Len(current_segment)]
                      /\ current_segment'
                            = Append(current_segment, segment_metadata[k].end_point)
                   \/ /\ segment_metadata[k].end_point = current_segment[1]
                      /\ current_segment'
                            = <<segment_metadata[k].start_point>> \o current_segment]_vars

\* a chain of three segments grown from its middle segment: once at the head
\* and once at the tail
C23_Witness ==
    /\ pc = "extend"
    /\ Len(current_segment) = 4
    /\ segment_weights[seg_idx].key = ChainKey(current_segment, 2)

\* key k is unconsumed, within 0.001 of the seed's weight, and its stored
\* start is the chain's last coordinate or its stored end the chain's first
Joinable(k) ==
    /\ k \notin processed_segments
    /\ WithinTolerance(WeightOf(k), current_weight)
    /\ k \in DOMAIN segment_metadata
    /\ \/ segment_metadata[k].start_point = current_segment[Len(current_segment)]
       \/ segment_metadata[k].end_point = current_segment[1]

\* an unconsumed key within 0.001 of the seed's weight without metadata
\* (line 122 raises on it)
Unreadable(k) ==
    /\ k \notin processed_segments
    /\ WithinTolerance(WeightOf(k), current_weight)
    /\ k \notin DOMAIN segment_metadata

\* C24: a step that emits the chain is taken only when no key is joinable;
\* and when some key is joinable (and no lookup raises) the step taken is an
\* extension, whatever non-adjacent keys of matching weight the scan meets
\* before the joinable one.
C24_StopCondition ==
    [][pc = "extend" =>
          /\ (Len(combined_segments') = Len(combined_segments) + 1) =>
                \A k \in Keys(segment_weights) : ~Joinable(k)
          /\ ((\E k \in Keys(segment_weights) : Joinable(k))
                /\ (\A k \in Keys(segment_weights) : ~Unreadable(k))) =>
                /\ pc' = "extend"
                /\ Len(current_segment') = Len(current_segment) + 1
                /\ combined_segments' = combined_segments]_vars

\* a chain was extended by a key that stands in the table after an unconsumed,
\* non-adjacent key of matching weight
C24_Witness ==
    /\ pc = "extend"
    /\ Len(current_segment) = 3
    /\ \E i \in 1..Len(segment_weights), j \in 1..Len(segment_weights) :
          /\ i < j
          /\ segment_weights[i].key \notin processed_segments
          /\ WithinTolerance(segment_weights[i].weight, current_weight)
          /\ segment_weights[j].key \in processed_segments
          /\ segment_weights[j].key # segment_weights[seg_idx].key

----------------------------------------------------------------------------
(* Termination of the merge pass (SpecMerge).                              *)

\* what a step taken inside the merge pass does to the tables and to the
\* chain
MergeStepEffect ==
    pc \in {"merge", "extend"} =>
        /\ segment_weights' = segment_weights
        /\ segment_metadata' = segment_metadata
        /\ (pc = "extend" /\ current_segment' # current_segment) =>
              /\ Len(current_segment') = Len(current_segment) + 1
              /\ \E k \in Keys(segment_weights) \ processed_segments :
                    processed_segments' = (processed_segments \cup {k})

\* C25: once started, the merge pass comes to its end (the file is written,
\* or the pass is left by the KeyError of a key without metadata); every step
\* of it leaves segment_weights and segment_metadata as they are; and every
\* step that changes the chain consumes one more key of the table, so there
\* is at most one extension per key.
C25_MergeTerminates ==
    /\ (pc = "merge") ~> (pc \in {"done", "KeyError"})
    /\ [](processed_segments \subseteq Keys(segment_weights))
    /\ [][MergeStepEffect]_vars

\* the pass ended on a table with a closed loop: a written chain of three
\* segments comes back to its first coordinate
C25_Witness ==
    /\ pc = "done"
    /\ \E f \in Features :
          /\ f.segment_count = 3
          /\ f.coordinates[1] = f.coordinates[4]

----------------------------------------------------------------------------
(* search_places                                                           *)

SearchLeft == sp.at \in {"done", "exit", "raised"}

LastSave == sp_hist.saves[Len(sp_hist.saves)]

\* the request just issued ended in an error the code treats as local to
\* the call: INVALID_REQUEST from either service, or any exception that is
\* no ApiError (a malformed body included) from the details call
LocalError ==
    \/ sp_hist.request.outcome = "INVALID_REQUEST"
    \/ /\ sp_hist.request.kind = "place"
       /\ sp_hist.request.outcome \in {"Exception", "malformed"}

\* C21: in every execution of search_places the api_calls counter never
\* exceeds MAX_API_CALLS.
C21_CallCeiling == sp.api_calls <= MAX_API_CALLS

\* C29 as stated: whenever search_places has left, save_results was called
\* exactly once, with interrupted=False on normal completion and with
\* interrupted=True otherwise, on the places collected; and a local error
\* never ends the run.
C29_SavesExactlyOnce ==
    /\ SearchLeft =>
          /\ Len(sp_hist.saves) = 1
          /\ sp_hist.saves[1].interrupted = (sp.at # "done")
          /\ sp_hist.saves[1].found_places = sp.found_places
    /\ LocalError => sp.at \in {"point", "places"}

\* C29, amended: save_results is not called before line 226 or a handler is
\* reached.  On normal completion it was called once with interrupted=False;
\* on an exception once with interrupted=True; on a KeyboardInterrupt the
\* last call has interrupted=True and it is the second call exactly when
\* the interrupt arrived after the regular save of line 226.  Every call is
\* handed the places collected, and writes a file only when there are
\* any.  A local error never ends the run.
C29_SavesOnExit ==
    /\ sp.at \in {"start", "point", "page", "places", "save"} => sp_hist.saves = <<>>
    /\ sp.at \in {"log", "done"} =>
          /\ Len(sp_hist.saves) = 1
          /\ ~sp_hist.saves[1].interrupted
    /\ sp.at = "raised" =>
          /\ Len(sp_hist.saves) = 1
          /\ sp_hist.saves[1].interrupted
    /\ sp.at = "exit" =>
          /\ Len(sp_hist.saves) \in {1, 2}
          /\ LastSave.interrupted
          /\ Len(sp_hist.saves) = 2 => ~sp_hist.saves[1].interrupted
    /\ \A i \in 1..Len(sp_hist.saves) :
          /\ sp_hist.saves[i].found_places = sp.found_places
          /\ sp_hist.saves[i].written <=> DOMAIN sp.found_places # {}
    /\ LocalError => sp.at \in {"point", "places"}

\* a KeyboardInterrupt arrived after the regular save: both files hold the
\* two places found
C29_Witness ==
    /\ sp.at = "exit"
    /\ Len(sp_hist.saves) = 2
    /\ DOMAIN sp.found_places = PlaceIds
    /\ sp_hist.saves[2].written

\* a details request is issued only for a place_id that is not stored, and
\* what is stored stays as it is
StoreOnce ==
    /\ sp_hist'.request.kind = "place" =>
          sp_hist'.request.place_id \notin DOMAIN sp.found_places
    /\ \A id \in DOMAIN sp.found_places :
          /\ id \in DOMAIN sp'.found_places
          /\ sp'.found_places[id] = sp.found_places[id]

\* C30: for every grid point at most MAX_CALLS_PER_POINT places_nearby calls
\* are made, a place-details request is never issued for a place_id already
\* stored in found_places, and a stored record is never overwritten.
C30_PerPointCapAndDedup ==
    /\ [](sp_hist.nearby_made <= MAX_CALLS_PER_POINT)
    /\ [][StoreOnce]_vars

\* the third places_nearby call for a point returned a stored place first
\* and a new one second; both places are stored, with different records
C30_Witness ==
    /\ sp_hist.nearby_made = MAX_CALLS_PER_POINT
    /\ sp.at = "places"
    /\ sp.place_idx = 2
    /\ Len(sp.places_result.results) = 2
    /\ sp.places_result.results[1] = "p1"
    /\ DOMAIN sp.found_places = PlaceIds
    /\ sp.found_places["p1"] # sp.found_places["p2"]

----------------------------------------------------------------------------
(* timezone, streetview, fetch_streetview and the APICallCounter           *)

\* C22: whenever the Street View endpoint answers with an image, streetview
\* (and fetch_streetview) returns the Path of the image file, both when it
\* writes the file and when the file already exists; it never returns
\* without a Path.
C22_ReturnsPath ==
    rq.fn \in {"streetview", "fetch_streetview"} =>
        /\ rq_hist.response = "image" => rq.at = "returned"
        /\ rq.at = "returned" => rq.result = "Path"

\* an increment at the ceiling raises and changes nothing; a request is
\* sent only from the state an increment has led to
CounterStep ==
    /\ (rq.fn = "fetch_streetview" /\ rq.at = "loop" /\ rq' # rq
        /\ api_counter.current_calls = max_calls) =>
          /\ rq'.at = "raised"
          /\ api_counter' = api_counter
          /\ rq_hist'.sent = rq_hist.sent
    /\ rq_hist'.sent # rq_hist.sent =>
          /\ rq_hist'.sent = rq_hist.sent + 1
          /\ api_counter.current_calls = rq_hist'.sent
          /\ api_counter' = api_counter

\* C26: current_calls never exceeds max_calls; an increment at the ceiling
\* raises and leaves current_calls unchanged; in a run of
\* collect_streetview_data every Street View request, first attempt or
\* retry, is preceded by a successful increment, so at most max_calls
\* requests are sent.
C26_CallCeiling ==
    /\ [](/\ api_counter.current_calls <= max_calls
          /\ rq_hist.sent <= api_counter.current_calls
          /\ (rq.fn = "fetch_streetview" /\ rq.at = "request") =>
                api_counter.current_calls = rq_hist.sent + 1)
    /\ [][CounterStep]_vars

\* the run has sent max_calls requests, and the retry of a failed request
\* was refused by the counter
C26_Witness ==
    /\ rq.fn = "fetch_streetview"
    /\ rq.at = "raised"
    /\ rq_hist.response = "RequestException"
    /\ rq.current_delay <= max_delay
    /\ rq_hist.calls = MaxImages
    /\ api_counter.current_calls = max_calls
    /\ rq_hist.sent = max_calls

\* 0.1, 0.2, 0.4, 0.8, 1.6, 3.2 seconds
BackoffDelays == <<1, 2, 4, 8, 16, 32>>

\* C27: while every request of a call raises a RequestException, the call
\* waits 0.1 s after the first failure and twice the last delay after each
\* further one, and raises at the failure that finds the pending delay above
\* 5 s: at most 7 requests, and the delays are 0.1, 0.2, 0.4, 0.8, 1.6, 3.2.
C27_BackoffBound ==
    rq_hist.only_errors =>
        /\ rq_hist.requests <= 7
        /\ Len(rq_hist.delays) = IF rq_hist.requests < 7 THEN rq_hist.requests ELSE 6
        /\ rq_hist.delays = SubSeq(BackoffDelays, 1, Len(rq_hist.delays))
        /\ rq_hist.requests = 7 => rq.at = "raised"
        /\ (rq.at = "raised" /\ rq.fn # "fetch_streetview") => rq_hist.requests = 7

\* the second fetch_streetview call of a run failed seven times and raised
C27_Witness ==
    /\ rq.fn = "fetch_streetview"
    /\ rq_hist.calls = MaxImages
    /\ rq.at = "raised"
    /\ rq_hist.only_errors
    /\ rq_hist.requests = 7
    /\ rq_hist.delays = BackoffDelays

\* C28: every call of streetview and of timezone ends after a bounded
\* number of requests (seven, the most the backoff allows), and every retry
\* is preceded by a backoff delay: a call that has sent a request and is
\* about to send another has slept since.
C28_RetryTermination ==
    rq.fn \in {"timezone", "streetview"} =>
        /\ rq_hist.requests <= 7
        /\ (rq.at \in {"loop", "request"} /\ rq_hist.requests >= 1) => rq_hist.slept

============================================================================
